---------------------------- MODULE Spec2Model ----------------------------
(***************************************************************************)
(* A model of tfomics' training harness (fit.py): LRDecay, MonitorMetrics, *)
(* TrainMetrics, Trainer and fit_lr_decay.                                 *)
(*                                                                         *)
(* Numbers.  Metric values are floats in the code; the code only compares  *)
(* them with each other and with the sentinels +-1e10, so they are         *)
(* modelled as integers in a fixed unit.  LRDecay and fit_lr_decay use the *)
(* unit 10 (1e10 is 1000000000, which fits TLC's 32-bit integers); the     *)
(* early_stopping scenarios use the unit 0.05 (0.5 is 10, 0.55 is 11).     *)
(* A learning rate is an exact fraction [num, den]; multiplying by         *)
(* decay_rate multiplies numerators and denominators.                      *)
(***************************************************************************)
EXTENDS Integers, Sequences, FiniteSets, TLC

VARIABLES
  lr_decay,       \* Trainer.lr_decay: the LRDecay object's fields
  optimizer_lr,   \* model.optimizer.learning_rate
  stdout,         \* the rates printed by LRDecay.check, oldest first
  checked,        \* history: the values passed to LRDecay.check, oldest first
  metrics,        \* Trainer.metrics: [train, valid, test], each a MonitorMetrics.value dict
  model_metrics,  \* [m.name for m in model.metrics], in order
  named,          \* history: per split and key, the update calls that named the key
  last,           \* history: the last call made, its arguments and outcome
  ret,            \* the value returned by the last pure call (early_stopping, train_epoch)
  train_steps,    \* number of Trainer.train_step calls made so far
  trainset,       \* the training samples, each named by its position in the input
  fit             \* fit_lr_decay's frame: arguments, epoch and position

vars == <<lr_decay, optimizer_lr, stdout, checked, metrics, model_metrics,
          named, last, ret, train_steps, trainset, fit>>

-----------------------------------------------------------------------------
(* Bounds of the model *)

MaxPatience == 3
MaxChecks == 4
MaxHist == 4
MaxCalls == 2
MaxEvals == 3
MaxN == 4
MaxBatch == 3
MaxEpochs == 3

(* Program constants *)

\* 1e10 in units of 10: LRDecay.initialize's sentinel
BestValInit == 1000000000

-----------------------------------------------------------------------------
(* Small helpers *)

None == "None"

\* no call made yet
NoCall == [op |-> "none"]

Frac(n, d) == [num |-> n, den |-> d]

\* self.lr * self.decay_rate, exactly
Mul(a, b) == [num |-> a.num * b.num, den |-> a.den * b.den]

RECURSIVE Pow(_, _)
Pow(b, k) == IF k = 0 THEN 1 ELSE b * Pow(b, k - 1)

\* the optimizer's learning rate before training starts
InitialLr == Frac(1, 100)

\* decay_rate arguments tried (0.3 is the default of LRDecay and fit_lr_decay)
DecayRates == {Frac(3, 10), Frac(1, 2)}

MetricArgs == {"loss", "auroc"}

-----------------------------------------------------------------------------
(* LRDecay *)

\* LRDecay.initialize: best_val and sign for the metric
initialize(metric) ==
  IF metric = "loss"
    THEN [best_val |-> BestValInit, sign |-> 1]
    ELSE [best_val |-> -BestValInit, sign |-> -1]

\* LRDecay.__init__
LRDecay(lr, decay_rate, patience, metric) ==
  [lr |-> lr, decay_rate |-> decay_rate, patience |-> patience,
   metric |-> metric, index |-> 0,
   best_val |-> initialize(metric).best_val, sign |-> initialize(metric).sign]

\* a slip: improvement that is not strict
ImprovesNotStrict(self, val) == self.sign * val <= self.sign * self.best_val

\* the comparison of LRDecay.status: does val improve on best_val
Improves(self, val) == self.sign * val < self.sign * self.best_val

\* a slip: the counter is not reset when the decay fires
statusNoReset(self, val) ==
  IF Improves(self, val)
    THEN [self |-> [self EXCEPT !.best_val = val, !.index = 0], status |-> FALSE]
    ELSE [self |-> [self EXCEPT !.index = self.index + 1],
          status |-> (self.index + 1 >= self.patience)]

\* LRDecay.status: the object after the call and the value returned
status(self, val) ==
  IF Improves(self, val)
    THEN [self |-> [self EXCEPT !.best_val = val, !.index = 0], status |-> FALSE]
    ELSE IF self.index + 1 = self.patience
      THEN [self |-> [self EXCEPT !.index = 0], status |-> TRUE]
      ELSE [self |-> [self EXCEPT !.index = self.index + 1], status |-> FALSE]

\* LRDecay.decay_learning_rate: the new self.lr, also assigned to the optimizer
decay_learning_rate(self) == [self EXCEPT !.lr = Mul(self.lr, self.decay_rate)]

\* LRDecay.check: the object after the call and whether the rate was decayed
check(self, val) ==
  LET s == status(self, val) IN
    IF s.status
      THEN [self |-> decay_learning_rate(s.self), decayed |-> TRUE]
      ELSE [self |-> s.self, decayed |-> FALSE]

\* Trainer.check_lr_decay(val), as it acts on the state
DoCheckLrDecay(val) ==
  LET c == check(lr_decay, val) IN
    /\ lr_decay' = c.self
    /\ optimizer_lr' = IF c.decayed THEN c.self.lr ELSE optimizer_lr
    /\ stdout' = IF c.decayed THEN Append(stdout, c.self.lr) ELSE stdout
    /\ checked' = Append(checked, val)

-----------------------------------------------------------------------------
(* MonitorMetrics and TrainMetrics *)

\* the names MonitorMetrics.initialize_metrics knows, besides 'loss'
KnownMetrics == {"acc", "auroc", "aupr", "corr", "mcc", "mse"}

Std(name) == name \o "_std"

Range(s) == {s[i] : i \in 1..Len(s)}

\* MonitorMetrics.__init__ / initialize_metrics: the value dict, every history empty
initialize_metrics(metric_names) ==
  LET tracked == KnownMetrics \cap Range(metric_names) IN
    [k \in {"loss"} \cup tracked \cup {Std(m) : m \in tracked} |-> <<>>]

\* np.nanmean and np.nanstd of the scalar a caller passes for one metric
nanmean(v) == v
nanstd(v) == 0

\* one pass of the loop of MonitorMetrics.update, for the keyword kw = [name, val]:
\* a missing key raises KeyError, after whatever was appended before it
appendOne(value, kw) ==
  IF kw.name \notin DOMAIN value
    THEN [value |-> value, raised |-> TRUE]
    ELSE LET v1 == [value EXCEPT ![kw.name] = Append(@, nanmean(kw.val))] IN
      IF kw.name = "loss"
        THEN [value |-> v1, raised |-> FALSE]
        ELSE IF Std(kw.name) \notin DOMAIN v1
          THEN [value |-> v1, raised |-> TRUE]
          ELSE [value |-> [v1 EXCEPT ![Std(kw.name)] = Append(@, nanstd(kw.val))],
                raised |-> FALSE]

\* MonitorMetrics.update(**kwargs): kwargs is the sequence of keywords in call
\* order; the loop stops at the first KeyError
RECURSIVE update(_, _)
update(value, kwargs) ==
  IF kwargs = <<>>
    THEN [value |-> value, raised |-> FALSE]
    ELSE LET r == appendOne(value, Head(kwargs)) IN
      IF r.raised THEN r ELSE update(r.value, Tail(kwargs))

Splits == {"train", "valid", "test"}

\* TrainMetrics.__init__
TrainMetrics(metric_names) ==
  [s \in Splits |-> initialize_metrics(metric_names)]

\* a slip: 'test' updates are routed to the 'valid' store
TrainMetricsUpdateMisrouted(tm, name, kwargs) ==
  IF name \in Splits
    THEN LET to == IF name = "test" THEN "valid" ELSE name
             r == update(tm[to], kwargs)
         IN [metrics |-> [tm EXCEPT ![to] = r.value], raised |-> r.raised]
    ELSE [metrics |-> tm, raised |-> FALSE]

\* TrainMetrics.update(name, **kwargs): an unrecognized name falls through
TrainMetricsUpdate(tm, name, kwargs) ==
  IF name = "train"
    THEN LET r == update(tm.train, kwargs) IN
           [metrics |-> [tm EXCEPT !.train = r.value], raised |-> r.raised]
    ELSE IF name = "valid"
      THEN LET r == update(tm.valid, kwargs) IN
             [metrics |-> [tm EXCEPT !.valid = r.value], raised |-> r.raised]
      ELSE IF name = "test"
        THEN LET r == update(tm.test, kwargs) IN
               [metrics |-> [tm EXCEPT !.test = r.value], raised |-> r.raised]
        ELSE [metrics |-> tm, raised |-> FALSE]

\* Trainer.__init__: the metric names handed to TrainMetrics
TrainerMetricNames(mm) == <<"loss">> \o mm

\* the keys an update call names, as the history `named` counts them
NamedBy(kwargs) == {kwargs[i].name : i \in 1..Len(kwargs)}

\* every name some call of the model passes to update
AllNames == {"loss", "acc", "auroc", "aupr", "accuracy", "auroc_std"}

NoneNamed == [s \in Splits |-> [k \in AllNames |-> 0]]

Count(nm, name, kwargs) ==
  IF name \in Splits
    THEN [nm EXCEPT ![name] = [k \in AllNames |->
            IF k \in NamedBy(kwargs) THEN @[k] + 1 ELSE @[k]]]
    ELSE nm

-----------------------------------------------------------------------------
(* Specification SpecLRDecay: one LRDecay object and a sequence of check() calls *)

LRVals == {-BestValInit, 10, 20, 30, BestValInit, 2 * BestValInit}

InitLRDecay ==
  /\ \E decay_rate \in DecayRates, patience \in 1..MaxPatience, metric \in MetricArgs :
       lr_decay = LRDecay(InitialLr, decay_rate, patience, metric)
  /\ optimizer_lr = InitialLr
  /\ stdout = <<>>
  /\ checked = <<>>
  /\ metrics = None /\ model_metrics = None /\ named = None /\ last = NoCall
  /\ ret = NoCall /\ train_steps = 0 /\ trainset = <<>> /\ fit = NoCall

CheckLrDecay ==
  /\ Len(checked) < MaxChecks
  /\ \E val \in LRVals : DoCheckLrDecay(val)
  /\ UNCHANGED <<metrics, model_metrics, named, last, ret, train_steps, trainset, fit>>

NextLRDecay == CheckLrDecay

SpecLRDecay == InitLRDecay /\ [][NextLRDecay]_vars

IsConstant(s) == \A i \in 1..Len(s) : s[i] = s[1]

StrictlyDecreasing(s) == \A i \in 1..Len(s) - 1 : s[i + 1] < s[i]

\* initial_rate * decay_rate^k
RateAfter(k) ==
  Frac(InitialLr.num * Pow(lr_decay.decay_rate.num, k),
       InitialLr.den * Pow(lr_decay.decay_rate.den, k))

\* the first value checked improves on the best-value a fresh LRDecay starts with
FirstImproves ==
  \/ lr_decay.metric = "loss" /\ checked[1] < BestValInit
  \/ lr_decay.metric # "loss" /\ checked[1] > -BestValInit

\* C1 as stated: after check() on a constant sequence of n >= patience values the
\* rate has been decayed exactly floor(n/patience) times, each time multiplied
\* by decay_rate.
C1_AsStated ==
  (Len(checked) >= lr_decay.patience /\ IsConstant(checked)) =>
    /\ Len(stdout) = Len(checked) \div lr_decay.patience
    /\ lr_decay.lr = RateAfter(Len(checked) \div lr_decay.patience)

\* C1 amended: on a constant sequence of n >= patience values the rate is decayed
\* exactly floor((n-1)/patience) times when the value improves on the initial
\* best-value (the first check records it as best and does not count), and
\* exactly floor(n/patience) times when it does not; each decay multiplies the
\* rate by decay_rate.
C1_ConstantDecays ==
  (Len(checked) >= lr_decay.patience /\ IsConstant(checked)) =>
    LET n == Len(checked)
        k == IF FirstImproves THEN (n - 1) \div lr_decay.patience
                              ELSE n \div lr_decay.patience
    IN /\ Len(stdout) = k
       /\ lr_decay.lr = RateAfter(k)
       /\ optimizer_lr = RateAfter(k)

\* C1 witness: a constant sequence of ordinary values, at least patience long,
\* that has decayed the rate, and fewer times than floor(n/patience)
C1_Witness ==
  /\ Len(checked) >= lr_decay.patience /\ IsConstant(checked)
  /\ FirstImproves
  /\ Len(stdout) >= 1
  /\ Len(stdout) < Len(checked) \div lr_decay.patience

\* C4 as stated: with metric 'loss', check() on a strictly decreasing sequence of
\* values of any magnitude never lets the counter reach patience and never
\* changes the learning rate.
C4_AsStated ==
  (lr_decay.metric = "loss" /\ StrictlyDecreasing(checked)) =>
    /\ Len(stdout) = 0
    /\ lr_decay.lr = InitialLr /\ optimizer_lr = InitialLr
    /\ lr_decay.index < lr_decay.patience

\* what C9 says one check(value) does, value being the last entry of checked'
C9_Step ==
  LET val == checked'[Len(checked')]
      better == \/ lr_decay.metric = "loss" /\ val < lr_decay.best_val
                \/ lr_decay.metric # "loss" /\ val > lr_decay.best_val
  IN /\ Len(checked') = Len(checked) + 1
     /\ IF better
          THEN /\ lr_decay'.best_val = val /\ lr_decay'.index = 0
               /\ lr_decay'.lr = lr_decay.lr
               /\ optimizer_lr' = optimizer_lr /\ stdout' = stdout
          ELSE /\ lr_decay'.best_val = lr_decay.best_val
               /\ IF lr_decay.index + 1 = lr_decay.patience
                    THEN /\ lr_decay'.index = 0
                         /\ lr_decay'.lr = Mul(lr_decay.lr, lr_decay.decay_rate)
                         /\ optimizer_lr' = lr_decay'.lr
                         /\ stdout' = Append(stdout, lr_decay'.lr)
                    ELSE /\ lr_decay'.index = lr_decay.index + 1
                         /\ lr_decay'.lr = lr_decay.lr
                         /\ optimizer_lr' = optimizer_lr /\ stdout' = stdout

C9_Range ==
  /\ lr_decay.index \in 0..(lr_decay.patience - 1)
  /\ lr_decay.lr = RateAfter(Len(stdout))
  /\ optimizer_lr = lr_decay.lr

\* C9: every check(value) either records a strictly better value (counter to 0,
\* rate unchanged) or increments the counter with best-value unchanged, and when
\* the counter then equals patience resets it and multiplies the rate (also the
\* optimizer's) by decay_rate; so the counter stays in 0..patience-1 and after k
\* firings the rate is initial_rate * decay_rate^k.
C9_CheckStep == [][C9_Step]_vars /\ []C9_Range

\* C9 witness: the decay has fired repeatedly, with the counter reset each time
C9_Witness ==
  /\ Len(stdout) >= 2 /\ lr_decay.index = 0
  /\ lr_decay.best_val \notin {BestValInit, -BestValInit}

-----------------------------------------------------------------------------
(* Trainer.early_stopping *)

\* np.argmin of a non-empty list: the 0-based index of the first minimum, found by
\* scanning from the left and moving only on a strictly smaller value
RECURSIVE argminFrom(_, _, _)
argminFrom(vals, i, best) ==
  IF i > Len(vals) THEN best - 1
  ELSE argminFrom(vals, i + 1, IF vals[i] < vals[best] THEN i ELSE best)

argmin(vals) == argminFrom(vals, 2, 1)

\* a slip: ties go to the latest occurrence
RECURSIVE argmaxLastFrom(_, _, _)
argmaxLastFrom(vals, i, best) ==
  IF i > Len(vals) THEN best - 1
  ELSE argmaxLastFrom(vals, i + 1, IF vals[i] >= vals[best] THEN i ELSE best)

argmaxLast(vals) == argmaxLastFrom(vals, 2, 1)

\* np.argmax of a non-empty list: the 0-based index of the first maximum
RECURSIVE argmaxFrom(_, _, _)
argmaxFrom(vals, i, best) ==
  IF i > Len(vals) THEN best - 1
  ELSE argmaxFrom(vals, i + 1, IF vals[i] > vals[best] THEN i ELSE best)

argmax(vals) == argmaxFrom(vals, 2, 1)

\* a slip: the patience test is strict
early_stoppingStrict(tm, metric, patience) ==
  IF metric \notin DOMAIN tm.valid \/ tm.valid[metric] = <<>>
    THEN [op |-> "early_stopping", raised |-> TRUE, status |-> FALSE]
    ELSE LET vals == tm.valid[metric]
             index == IF metric = "loss" THEN argmin(vals) ELSE argmax(vals)
         IN [op |-> "early_stopping", raised |-> FALSE, status |-> (patience - (Len(vals) - index - 1) < 0)]

\* Trainer.early_stopping(metric, patience) on the store tm: KeyError for a metric
\* the store does not hold, ValueError (argmin of an empty list) for no history
early_stopping(tm, metric, patience) ==
  IF metric \notin DOMAIN tm.valid \/ tm.valid[metric] = <<>>
    THEN [op |-> "early_stopping", raised |-> TRUE, status |-> FALSE]
    ELSE LET vals == tm.valid[metric]
             index == IF metric = "loss" THEN argmin(vals) ELSE argmax(vals)
         IN [op |-> "early_stopping", raised |-> FALSE, status |-> (patience - (Len(vals) - index - 1) <= 0)]

-----------------------------------------------------------------------------
(* Specification SpecEarlyStopping: early_stopping applied to validation     *)
(* histories of up to MaxHist epochs (values in units of 0.05)               *)

ESVals == {10, 11, 12, 16, 18, 19, 20}

SeqsUpTo(S, n) == UNION {[1..k -> S] : k \in 0..n}

InitEarlyStopping ==
  /\ model_metrics = <<"auroc">>
  /\ \E h \in SeqsUpTo(ESVals, MaxHist) :
       metrics = [TrainMetrics(TrainerMetricNames(model_metrics)) EXCEPT
                    !.valid = [k \in DOMAIN @ |->
                                 IF k = "auroc_std" THEN [i \in 1..Len(h) |-> nanstd(h[i])]
                                                    ELSE h]]
  /\ last = NoCall /\ ret = NoCall
  /\ lr_decay = None /\ optimizer_lr = InitialLr /\ stdout = <<>> /\ checked = <<>>
  /\ named = None /\ train_steps = 0 /\ trainset = <<>> /\ fit = NoCall

EarlyStopping ==
  /\ \E metric \in MetricArgs, patience \in 0..MaxPatience :
       /\ last' = [op |-> "early_stopping", metric |-> metric, patience |-> patience]
       /\ ret' = early_stopping(metrics, metric, patience)
  /\ UNCHANGED <<lr_decay, optimizer_lr, stdout, checked, metrics, model_metrics,
                 named, train_steps, trainset, fit>>

NextEarlyStopping == EarlyStopping

SpecEarlyStopping == InitEarlyStopping /\ [][NextEarlyStopping]_vars

\* the earliest 0-based index of the best value of h: the minimum for 'loss', the
\* maximum for any other metric
BestIndex(h, metric) ==
  CHOOSE b \in 0..(Len(h) - 1) :
    /\ \A j \in 1..Len(h) : IF metric = "loss" THEN h[b + 1] <= h[j] ELSE h[b + 1] >= h[j]
    /\ \A j \in 1..b : h[j] # h[b + 1]

\* C3: on a non-empty validation history h, early_stopping(metric, patience)
\* returns True exactly when patience - (len(h) - 1 - b) <= 0, b the earliest index
\* of the best value; [0.5,0.6,0.55] on 'auroc' gives True for patience 1 and False
\* for patience 2, and [0.9,0.8,0.95,1.0] on 'loss' gives True for patience 1.
C3_EarlyStopping ==
  (last # NoCall /\ metrics.valid[last.metric] # <<>>) =>
    LET h == metrics.valid[last.metric] IN
      /\ ~ret.raised
      /\ ret.status = (last.patience - (Len(h) - 1 - BestIndex(h, last.metric)) <= 0)
      /\ (h = <<10, 12, 11>> /\ last.metric = "auroc" /\ last.patience = 1) => ret.status
      /\ (h = <<10, 12, 11>> /\ last.metric = "auroc" /\ last.patience = 2) => ~ret.status
      /\ (h = <<18, 16, 19, 20>> /\ last.metric = "loss" /\ last.patience = 1) => ret.status

\* C3 witness: the 'loss' scenario of the claim has been evaluated
C3_Witness ==
  /\ last # NoCall /\ last.metric = "loss" /\ last.patience = 1
  /\ metrics.valid["loss"] = <<18, 16, 19, 20>>
  /\ ret.status

-----------------------------------------------------------------------------
(* Trainer.evaluate and the calls on the metric store *)

\* Trainer.evaluate(name, x, y): results is what model.evaluate returns, the loss
\* first and one value per model metric after it.  The loss is stored by one
\* update call and the metrics by a second one; a KeyError of the second leaves
\* what was appended before it.
evaluate(tm, mm, name, results) ==
  LET metric_dic == [i \in 1..Len(mm) |-> [name |-> mm[i], val |-> results[i + 1]]]
      u1 == TrainMetricsUpdate(tm, name, <<[name |-> "loss", val |-> results[1]]>>)
  IN IF u1.raised THEN u1 ELSE TrainMetricsUpdate(u1.metrics, name, metric_dic)

\* the history `named` after evaluate's two update calls
CountEvaluate(nm, mm, name) ==
  Count(Count(nm, name, <<[name |-> "loss", val |-> 0]>>), name,
        [i \in 1..Len(mm) |-> [name |-> mm[i], val |-> 0]])

\* model.metrics of the models tried: 'accuracy' is the name Keras gives the
\* accuracy metric, one MonitorMetrics.initialize_metrics does not know
ModelMetricChoices ==
  {<<>>, <<"auroc">>, <<"auroc", "aupr">>, <<"auroc", "accuracy", "aupr">>}

\* values a model reports (units of 10)
StoreVals == {1, 2}

SplitArgs == Splits \cup {"other"}

\* the state after Trainer(model)
InitMetrics ==
  /\ model_metrics \in ModelMetricChoices
  /\ metrics = TrainMetrics(TrainerMetricNames(model_metrics))
  /\ named = NoneNamed
  /\ last = NoCall /\ ret = NoCall
  /\ lr_decay = None /\ optimizer_lr = InitialLr /\ stdout = <<>> /\ checked = <<>>
  /\ train_steps = 0 /\ trainset = <<>> /\ fit = NoCall

CallsMade == IF last = NoCall THEN 0 ELSE last.n

\* a call of Trainer.evaluate
Evaluate ==
  /\ CallsMade < MaxEvals
  /\ \E name \in SplitArgs, results \in [1..(Len(model_metrics) + 1) -> StoreVals] :
       LET e == evaluate(metrics, model_metrics, name, results) IN
         /\ metrics' = e.metrics
         /\ named' = CountEvaluate(named, model_metrics, name)
         /\ last' = [op |-> "evaluate", name |-> name, raised |-> e.raised,
                     n |-> CallsMade + 1]
  /\ UNCHANGED <<lr_decay, optimizer_lr, stdout, checked, model_metrics, ret,
                 train_steps, trainset, fit>>

NextEvaluate == Evaluate

SpecEvaluate == InitMetrics /\ [][NextEvaluate]_vars

\* C5 as stated: in every state reachable by Trainer.evaluate calls, whether a
\* call completed or failed, all histories of one split have the same length.
C5_AsStated ==
  \A s \in Splits : \A k1, k2 \in DOMAIN metrics[s] :
    Len(metrics[s][k1]) = Len(metrics[s][k2])

\* the keyword arguments tried with TrainMetrics.update, as the names in call
\* order; each gets the value val
KwargNames ==
  {<<>>, <<"loss">>, <<"auroc">>, <<"loss", "auroc">>, <<"auroc", "aupr">>,
   <<"accuracy", "auroc">>, <<"auroc", "accuracy">>, <<"auroc_std">>}

Kwargs(names, val) == [i \in 1..Len(names) |-> [name |-> names[i], val |-> val]]

\* a call of TrainMetrics.update
UpdateCall ==
  /\ CallsMade < MaxCalls
  /\ \E name \in SplitArgs, names \in KwargNames, val \in StoreVals :
       LET u == TrainMetricsUpdate(metrics, name, Kwargs(names, val)) IN
         /\ metrics' = u.metrics
         /\ named' = Count(named, name, Kwargs(names, val))
         /\ last' = [op |-> "update", name |-> name, raised |-> u.raised,
                     n |-> CallsMade + 1, names |-> names]
  /\ UNCHANGED <<lr_decay, optimizer_lr, stdout, checked, model_metrics, ret,
                 train_steps, trainset, fit>>

NextTrainMetrics == UpdateCall

SpecTrainMetrics == InitMetrics /\ [][NextTrainMetrics]_vars

\* the non-loss metrics a store tracks
Tracked(value) == DOMAIN value \cap KnownMetrics

C6_Lengths ==
  \A s \in Splits :
    /\ \A k \in {"loss"} \cup Tracked(metrics[s]) : Len(metrics[s][k]) = named[s][k]
    /\ \A m \in Tracked(metrics[s]) :
         /\ Std(m) \in DOMAIN metrics[s]
         /\ Len(metrics[s][Std(m)]) = Len(metrics[s][m])
    /\ "loss_std" \notin DOMAIN metrics[s]

C6_NoShrink ==
  \A s \in Splits : \A k \in DOMAIN metrics[s] :
    /\ k \in DOMAIN metrics'[s]
    /\ Len(metrics'[s][k]) >= Len(metrics[s][k])

\* C6 as stated: for every sequence of MonitorMetrics.update calls each history's
\* length is the number of update calls that named its metric, every tracked
\* non-loss metric has a '<name>_std' history of the same length, no 'loss_std'
\* history exists, and histories never shrink.
C6_AsStated == []C6_Lengths /\ [][C6_NoShrink]_vars

\* what C7 says of one TrainMetrics.update(split, ...) call, the one last' records
C7_Step ==
  /\ \A s \in Splits : s # last'.name => metrics'[s] = metrics[s]
  /\ last'.name \notin Splits => (~last'.raised /\ metrics' = metrics)

\* C7: TrainMetrics.update(split, ...) changes only the history of the named split
\* and leaves the other two unchanged; with any other split name it raises no
\* error and leaves all three unchanged.
C7_Frame == [][C7_Step]_vars

\* C7 witness: an update naming an unrecognized split, with a metric no store
\* tracks, came back without error after an earlier update had filled a split
C7_Witness ==
  /\ last.op = "update" /\ last.name \notin Splits /\ ~last.raised
  /\ last.names = <<"accuracy", "auroc">>
  /\ metrics.valid["loss"] # <<>>

-----------------------------------------------------------------------------
(* Trainer.train_epoch *)

\* the orders trainset.shuffle(buffer_size) can produce for n samples: the k-th
\* sample out is drawn from a buffer holding inputs no later than k+buffer_size-1
ShuffleOrders(n, buffer_size) ==
  {o \in Permutations(1..n) : \A k \in 1..n : o[k] <= k + buffer_size - 1}

\* Trainer.train_epoch(trainset, shuffle, batch_size): batch_dataset is bound only
\* under `if shuffle`, so without shuffle its first use raises UnboundLocalError;
\* an empty training set raises at np.concatenate.  pred and y name each row by
\* its sample; steps is the number of train_step calls (one per batch).
train_epoch(ts, shuffle, batch_size, order) ==
  IF ~shuffle
    THEN [op |-> "train_epoch", raised |-> TRUE, pred |-> <<>>, y |-> <<>>, steps |-> 0]
    ELSE IF Len(ts) = 0
      THEN [op |-> "train_epoch", raised |-> TRUE, pred |-> <<>>, y |-> <<>>, steps |-> 0]
      ELSE [op |-> "train_epoch", raised |-> FALSE,
            pred |-> [k \in 1..Len(ts) |-> ts[order[k]]],
            y |-> [k \in 1..Len(ts) |-> ts[order[k]]],
            steps |-> (Len(ts) + batch_size - 1) \div batch_size]

-----------------------------------------------------------------------------
(* Specification SpecTrainEpoch: train_epoch calls on one training set *)

InitTrainEpoch ==
  /\ \E n \in 0..MaxN : trainset = [k \in 1..n |-> k]
  /\ train_steps = 0
  /\ last = NoCall /\ ret = NoCall
  /\ lr_decay = None /\ optimizer_lr = InitialLr /\ stdout = <<>> /\ checked = <<>>
  /\ metrics = None /\ model_metrics = None /\ named = None /\ fit = NoCall

TrainEpoch ==
  /\ CallsMade < MaxCalls
  /\ \E shuffle \in BOOLEAN, batch_size \in 1..MaxBatch :
       \E order \in ShuffleOrders(Len(trainset), batch_size) :
         LET r == train_epoch(trainset, shuffle, batch_size, order) IN
           /\ ret' = r
           /\ train_steps' = train_steps + r.steps
           /\ last' = [op |-> "train_epoch", shuffle |-> shuffle,
                       batch_size |-> batch_size, n |-> CallsMade + 1]
  /\ UNCHANGED <<lr_decay, optimizer_lr, stdout, checked, metrics, model_metrics,
                 named, trainset, fit>>

NextTrainEpoch == TrainEpoch

SpecTrainEpoch == InitTrainEpoch /\ [][NextTrainEpoch]_vars

\* C2 as stated: train_epoch with shuffle disabled on N samples, N divisible by
\* the batch size B, visits each of the N/B batches once in input order and
\* returns N prediction rows in input order.
C2_AsStated ==
  (/\ last.op = "train_epoch" /\ ~last.shuffle
   /\ Len(trainset) >= 1 /\ Len(trainset) % last.batch_size = 0) =>
     /\ ~ret.raised
     /\ ret.pred = trainset
     /\ ret.steps = Len(trainset) \div last.batch_size

-----------------------------------------------------------------------------
(* Specification SpecFit: fit_lr_decay, one action per statement of its loop *)

\* model.metrics of the models fitted
FitModelMetrics == {<<>>, <<"auroc">>, <<"accuracy">>}

\* validation values a model reports (units of 10): ordinary ones and, for the
\* loss and for the metrics, the sentinel LRDecay starts from
FitLossVals == {10, 20, BestValInit}
FitMetricVals == {-BestValInit, 10, 20}

\* what model.evaluate can return for a model with the metrics mm
FitResults(mm) ==
  {r \in [1..(Len(mm) + 1) -> FitLossVals \cup FitMetricVals] :
     r[1] \in FitLossVals /\ \A i \in 2..(Len(mm) + 1) : r[i] \in FitMetricVals}

\* the state when the loop is entered: Trainer(model) and set_lr_decay are done
InitFit ==
  /\ model_metrics \in FitModelMetrics
  /\ metrics = TrainMetrics(TrainerMetricNames(model_metrics))
  /\ \E lr_patience \in 1..MaxPatience, lr_metric \in MetricArgs :
       lr_decay = LRDecay(InitialLr, Frac(3, 10), lr_patience, lr_metric)
  /\ optimizer_lr = InitialLr
  /\ stdout = <<>> /\ checked = <<>>
  /\ trainset = <<1, 2>> /\ train_steps = 0
  /\ \E num_epochs \in 0..MaxEpochs, shuffle \in BOOLEAN,
        es_patience \in 1..MaxPatience, es_metric \in MetricArgs :
       fit = [op |-> "fit_lr_decay", num_epochs |-> num_epochs, batch_size |-> 1,
              shuffle |-> shuffle, es_patience |-> es_patience,
              es_metric |-> es_metric, epoch |-> 0, pc |-> "for"]
  /\ named = None /\ last = NoCall /\ ret = NoCall

\* for epoch in range(num_epochs)
FitFor ==
  /\ fit.pc = "for"
  /\ fit' = IF fit.epoch < fit.num_epochs
              THEN [fit EXCEPT !.epoch = @ + 1, !.pc = "train_epoch"]
              ELSE [fit EXCEPT !.pc = "return"]
  /\ UNCHANGED <<lr_decay, optimizer_lr, stdout, checked, metrics, model_metrics,
                 named, last, ret, train_steps, trainset>>

\* trainer.train_epoch(trainset, shuffle=shuffle, batch_size=batch_size)
FitTrainEpoch ==
  /\ fit.pc = "train_epoch"
  /\ \E order \in ShuffleOrders(Len(trainset), fit.batch_size) :
       LET r == train_epoch(trainset, fit.shuffle, fit.batch_size, order) IN
         /\ ret' = r
         /\ train_steps' = train_steps + r.steps
         /\ fit' = [fit EXCEPT !.pc = IF r.raised THEN "raised" ELSE "evaluate"]
  /\ UNCHANGED <<lr_decay, optimizer_lr, stdout, checked, metrics, model_metrics,
                 named, last, trainset>>

\* trainer.evaluate('valid', x_valid, y_valid)
FitEvaluate ==
  /\ fit.pc = "evaluate"
  /\ \E results \in FitResults(model_metrics) :
       LET e == evaluate(metrics, model_metrics, "valid", results) IN
         /\ metrics' = e.metrics
         /\ fit' = [fit EXCEPT !.pc = IF e.raised THEN "raised" ELSE "check_lr_decay"]
  /\ UNCHANGED <<lr_decay, optimizer_lr, stdout, checked, model_metrics,
                 named, last, ret, train_steps, trainset>>

\* trainer.check_lr_decay(trainer.metrics.valid.value[lr_metric][-1])
FitCheckLrDecay ==
  /\ fit.pc = "check_lr_decay"
  /\ IF lr_decay.metric \in DOMAIN metrics.valid
       THEN /\ DoCheckLrDecay(metrics.valid[lr_decay.metric][Len(metrics.valid[lr_decay.metric])])
            /\ fit' = [fit EXCEPT !.pc = "early_stopping"]
       ELSE /\ fit' = [fit EXCEPT !.pc = "raised"]
            /\ UNCHANGED <<lr_decay, optimizer_lr, stdout, checked>>
  /\ UNCHANGED <<metrics, model_metrics, named, last, ret, train_steps, trainset>>

\* if trainer.early_stopping(es_metric, patience=es_patience): break
FitEarlyStopping ==
  /\ fit.pc = "early_stopping"
  /\ LET es == early_stopping(metrics, fit.es_metric, fit.es_patience) IN
       /\ ret' = es
       /\ fit' = [fit EXCEPT !.pc = IF es.raised THEN "raised"
                                    ELSE IF es.status THEN "return" ELSE "for"]
  /\ UNCHANGED <<lr_decay, optimizer_lr, stdout, checked, metrics, model_metrics,
                 named, last, train_steps, trainset>>

NextFit ==
  \/ FitFor
  \/ FitTrainEpoch
  \/ FitEvaluate
  \/ FitCheckLrDecay
  \/ FitEarlyStopping

SpecFit == InitFit /\ [][NextFit]_vars

\* the store as it was after t epochs
AfterEpochs(tm, t) ==
  [tm EXCEPT !.valid = [k \in DOMAIN @ |-> SubSeq(@[k], 1, t)]]

\* early_stopping would have said True after epoch t
StopsAfter(t) ==
  LET es == early_stopping(AfterEpochs(metrics, t), fit.es_metric, fit.es_patience)
  IN ~es.raised /\ es.status

C8_Order ==
  /\ fit.pc = "for" => fit'.pc \in {"train_epoch", "return"}
  /\ fit.pc = "train_epoch" => fit'.pc = "evaluate"
  /\ fit.pc = "evaluate" => fit'.pc = "check_lr_decay"
  /\ fit.pc = "check_lr_decay" =>
       /\ fit'.pc = "early_stopping"
       /\ checked' = Append(checked, metrics.valid[lr_decay.metric][fit.epoch])
  /\ fit.pc = "early_stopping" => fit'.pc \in {"for", "return"}

C8_Final ==
  fit.pc \notin {"for", "train_epoch", "evaluate", "check_lr_decay", "early_stopping"} =>
    /\ fit.pc = "return"
    /\ Len(metrics.valid["loss"]) = fit.epoch
    /\ \A t \in 1..(fit.epoch - 1) : ~StopsAfter(t)
    /\ fit.epoch < fit.num_epochs => StopsAfter(fit.epoch)

\* C8 as stated: each epoch of fit_lr_decay runs train_epoch, evaluate on the
\* validation set, check_lr_decay with the newest validation value of lr_metric,
\* then early_stopping, in this order; the loop ends after the first epoch in
\* which early_stopping is True and otherwise after num_epochs epochs, so the
\* epochs run (and the validation history's length) are min(num_epochs, first
\* epoch where early_stopping is True).
C8_AsStated == [][C8_Order]_vars /\ []C8_Final

\* every validation value of lr_metric so far lies strictly between -1e10 and 1e10
ValuesOrdinary ==
  /\ lr_decay.metric \in DOMAIN metrics.valid
  /\ \A i \in 1..Len(metrics.valid[lr_decay.metric]) :
       /\ metrics.valid[lr_decay.metric][i] > -BestValInit
       /\ metrics.valid[lr_decay.metric][i] < BestValInit

\* C10: in fit_lr_decay with lr_metric = es_metric and metric values strictly
\* between -1e10 and 1e10, if 1 <= es_patience < lr_patience the learning rate is
\* never decayed during the run; if es_patience = lr_patience a decay happens
\* only in the final epoch, the one in which early stopping fires.
C10_NoDecayBeforeStop ==
  (lr_decay.metric = fit.es_metric /\ ValuesOrdinary) =>
    /\ fit.es_patience < lr_decay.patience =>
         (stdout = <<>> /\ optimizer_lr = InitialLr /\ lr_decay.lr = InitialLr)
    /\ (fit.es_patience = lr_decay.patience /\ stdout # <<>>) =>
         /\ Len(stdout) = 1
         /\ fit.pc \in {"early_stopping", "return"}
         /\ StopsAfter(fit.epoch)
         /\ \A t \in 1..(fit.epoch - 1) : ~StopsAfter(t)

\* C10 witness: with es_patience < lr_patience early stopping has ended the run
\* before the epoch budget, the LRDecay counter having counted stagnant epochs
C10_Witness ==
  /\ lr_decay.metric = fit.es_metric /\ ValuesOrdinary
  /\ fit.es_patience < lr_decay.patience
  /\ fit.pc = "return" /\ fit.epoch < fit.num_epochs
  /\ lr_decay.index = fit.es_patience

\* with es_patience = lr_patience the decay of the final epoch has happened
C10_WitnessEqual ==
  /\ lr_decay.metric = fit.es_metric /\ ValuesOrdinary
  /\ fit.es_patience = lr_decay.patience /\ lr_decay.patience >= 2
  /\ fit.pc = "return" /\ Len(stdout) = 1

=============================================================================
